---- MODULE Spec2Model ----
(***************************************************************************)
(* sva::MotionVec<T> (src/src/MotionVec.h): the 6-element spatial motion   *)
(* vector, its constructors, accessors, elementwise operators, scalar cast *)
(* and the spatial operations cross, crossDual and dot.                    *)
(*                                                                         *)
(* Scalars are integer-valued.  A value of a scalar type T that fits in    *)
(* 31 bits is a TLA+ integer; the arithmetic of T is exact arithmetic      *)
(* followed by the rounding (floating types) or wrapping (short) of T.     *)
(* Products and sums that need more than 31 bits are kept as two-limb      *)
(* numbers <<hi, lo>> = hi * Base + lo with 0 <= lo < Base.                *)
(***************************************************************************)
EXTENDS Integers, Sequences, FiniteSets, TLC

(***************************************************************************)
(* Bounds of the model.                                                    *)
(***************************************************************************)
\* Largest component of the small input vectors.
MaxVal == 1
\* Number of in-place writes through the mutable vector() reference.
MaxWrites == 1

(***************************************************************************)
(* Two-limb integers.                                                      *)
(***************************************************************************)
Base == 268435456
HalfBase == 16384

Abs(x) == IF x < 0 THEN -x ELSE x

\* x as a two-limb number.
Wide(x) == <<x \div Base, x % Base>>

\* A two-limb number that fits in 31 bits, as an integer.
Narrow(w) == w[1] * Base + w[2]

FitsInt(w) == w[1] >= -8 /\ w[1] <= 7

AddW(u, v) ==
    LET l == u[2] + v[2]
    IN  <<u[1] + v[1] + (l \div Base), l % Base>>

NegW(u) == IF u[2] = 0 THEN <<-u[1], 0>> ELSE <<-u[1] - 1, Base - u[2]>>

SubW(u, v) == AddW(u, NegW(v))

AbsW(u) == IF u[1] < 0 THEN NegW(u) ELSE u

\* The exact product of x and y, |x|, |y| <= Base.
MulW(x, y) ==
    LET ax  == Abs(x)
        ay  == Abs(y)
        x1  == ax \div HalfBase
        x0  == ax % HalfBase
        y1  == ay \div HalfBase
        y0  == ay % HalfBase
        mid == x1 * y0 + x0 * y1
        lo  == (mid % HalfBase) * HalfBase + x0 * y0
        mag == <<x1 * y1 + (mid \div HalfBase) + (lo \div Base), lo % Base>>
    IN  IF (x < 0) = (y < 0) THEN mag ELSE NegW(mag)

RECURSIVE BitLen(_)
BitLen(n) == IF n = 0 THEN 0 ELSE 1 + BitLen(n \div 2)

BitLenW(m) == IF m[1] > 0 THEN 28 + BitLen(m[1]) ELSE BitLen(m[2])

\* The magnitude m rounded to a multiple of 2^e, ties to the even multiple
\* (IEEE 754 round-to-nearest-even), 1 <= e.
RoundMag(m, e) ==
    IF e < 28
    THEN LET U    == 2 ^ e
             r    == m[2] % U
             odd  == ((m[2] \div U) % 2) = 1
             down == <<m[1], m[2] - r>>
             up   == AddW(down, <<0, U>>)
         IN  IF 2 * r < U \/ (2 * r = U /\ ~odd) THEN down ELSE up
    ELSE LET U    == 2 ^ (e - 28)
             rh   == m[1] % U
             odd  == ((m[1] \div U) % 2) = 1
             down == <<m[1] - rh, 0>>
             up   == <<m[1] - rh + U, 0>>
             \* the remainder rh * Base + m[2] against half of U * Base
             cmp  == IF e = 28
                     THEN IF 2 * m[2] < Base THEN -1
                          ELSE IF 2 * m[2] = Base THEN 0 ELSE 1
                     ELSE IF 2 * rh < U THEN -1
                          ELSE IF 2 * rh = U /\ m[2] = 0 THEN 0 ELSE 1
         IN  IF cmp < 0 \/ (cmp = 0 /\ ~odd) THEN down ELSE up

\* w rounded to p significant bits.
RoundW(w, p) ==
    LET m == AbsW(w)
        e == BitLenW(m) - p
    IN  IF e <= 0 THEN w
        ELSE IF w[1] < 0 THEN NegW(RoundMag(m, e)) ELSE RoundMag(m, e)

(***************************************************************************)
(* The scalar types T and T2 of the templates, and their arithmetic.       *)
(***************************************************************************)
IntTypes == {"short", "int", "long"}
FloatTypes == {"float", "double"}

\* Significand width of a floating type (IEEE 754 binary32 and binary64).
Mant(T) == IF T = "float" THEN 24 ELSE 53

\* x wrapped into the 16-bit two's complement range.
Wrap16(x) == ((x + 32768) % 65536) - 32768

\* The exact result w as a value of T: rounded for a floating type, wrapped
\* for short (the int result converted back to short; Base is a multiple of
\* 2^16, so the low limb decides); int and long results are in range (signed
\* overflow is undefined and is excluded by the guards).
RoundT(T, w) ==
    IF T \in FloatTypes THEN RoundW(w, Mant(T))
    ELSE IF T = "short" THEN Wide(Wrap16(w[2]))
    ELSE w

MulT(T, x, y) == Narrow(RoundT(T, MulW(x, y)))
AddT(T, x, y) == Narrow(RoundT(T, AddW(Wide(x), Wide(y))))
SubT(T, x, y) == Narrow(RoundT(T, SubW(Wide(x), Wide(y))))
NegT(T, x) == Narrow(RoundT(T, NegW(Wide(x))))

\* static_cast<To>(x) of a value x of type From.
Conv(From, To, x) == Narrow(RoundT(To, Wide(x)))

\* A floating value outside the range of the integer type it is converted
\* to is undefined behaviour; the operations are applied where it is defined.
ConvDefined(From, To, x) ==
    (From \in FloatTypes /\ To = "short") => (x >= -32768 /\ x <= 32767)

(***************************************************************************)
(* Fixed-size vectors of the underlying library, as sequences (element i   *)
(* of the C++ vector is element i + 1 of the sequence).                    *)
(***************************************************************************)
Zero3 == <<0, 0, 0>>
Zero6 == <<0, 0, 0, 0, 0, 0>>

head3(v) == SubSeq(v, 1, 3)
tail3(v) == SubSeq(v, 4, 6)

Add3(T, u, v) == [i \in 1..3 |-> AddT(T, u[i], v[i])]

\* Vector3<T>::cross.
Cross3(T, u, v) ==
    << SubT(T, MulT(T, u[2], v[3]), MulT(T, u[3], v[2])),
       SubT(T, MulT(T, u[3], v[1]), MulT(T, u[1], v[3])),
       SubT(T, MulT(T, u[1], v[2]), MulT(T, u[2], v[1])) >>

\* Vector3<T>::dot, products and sums in T, kept as a two-limb number.
Dot3(T, u, v) ==
    RoundT(T, AddW(RoundT(T, AddW(RoundT(T, MulW(u[1], v[1])),
                                  RoundT(T, MulW(u[2], v[2])))),
                   RoundT(T, MulW(u[3], v[3]))))

(***************************************************************************)
(* MotionVec<T>: the object is its member mv_.                             *)
(***************************************************************************)
MotionVecVec(vec) == [mv_ |-> vec]

\* The two halves stored in the wrong order.
MotionVecParts_swapped(angular_, linear_) == [mv_ |-> linear_ \o angular_]

MotionVecParts(angular_, linear_) == [mv_ |-> angular_ \o linear_]

\* The tail returned instead of the head.
angular_tail(m) == tail3(m.mv_)

angular(m) == head3(m.mv_)

\* The head returned instead of the tail.
linear_head(m) == head3(m.mv_)

linear(m) == tail3(m.mv_)

vector(m) == m.mv_

\* The write vector()(i) = val through the mutable reference.
vectorRef(m, i, val) == [m EXCEPT !.mv_[i + 1] = val]

\* The conversion made through float whatever T2 is.
cast_viaFloat(T, T2, m) ==
    [mv_ |-> [i \in 1..6 |-> Conv("float", T2, Conv(T, "float", m.mv_[i]))]]

cast(T, T2, m) == MotionVecVec([i \in 1..6 |-> Conv(T, T2, m.mv_[i])])

operatorPlus(T, m, mv) ==
    MotionVecVec([i \in 1..6 |-> AddT(T, m.mv_[i], mv.mv_[i])])

operatorMinus(T, m, mv) ==
    MotionVecVec([i \in 1..6 |-> SubT(T, m.mv_[i], mv.mv_[i])])

\* The vector returned without the negation.
operatorNeg_identity(T, m) == [mv_ |-> m.mv_]

operatorNeg(T, m) == MotionVecVec([i \in 1..6 |-> NegT(T, m.mv_[i])])

\* scalar * mv_: the library's operator takes the scalar as a const T&, so
\* the T2 argument is converted to T before the elementwise product.
operatorMul(T, m, T2, scalar) ==
    MotionVecVec([i \in 1..6 |-> MulT(T, Conv(T2, T, scalar), m.mv_[i])])

\* The vector returned without the scaling.
operatorMulLeft_unscaled(T, T2, scalar, mv) == [mv_ |-> mv.mv_]

operatorMulLeft(T, T2, scalar, mv) == operatorMul(T, mv, T2, scalar)

operatorEq(m, mv) == m.mv_ = mv.mv_

operatorNe(m, mv) == m.mv_ # mv.mv_

\* out << mv.vector().transpose(): the six elements in one row.
operatorOut(out, mv) == Append(out, vector(mv))

(***************************************************************************)
(* ForceVec<T>: moment (couple) in the head, force in the tail.            *)
(***************************************************************************)
ForceVecParts(couple_, force_) == [fv_ |-> couple_ \o force_]

couple(fv) == head3(fv.fv_)

force(fv) == tail3(fv.fv_)

(***************************************************************************)
(* The spatial operations.                                                 *)
(***************************************************************************)
cross(T, m, mv2) ==
    MotionVecParts(Cross3(T, angular(m), angular(mv2)),
                   Add3(T, Cross3(T, angular(m), linear(mv2)),
                           Cross3(T, linear(m), angular(mv2))))

crossDual(T, m, fv2) ==
    ForceVecParts(Add3(T, Cross3(T, angular(m), couple(fv2)),
                          Cross3(T, linear(m), force(fv2))),
                  Cross3(T, angular(m), force(fv2)))

\* The pairing computed in T.
dotT(T, m, fv2) ==
    RoundT(T, AddW(Dot3(T, angular(m), couple(fv2)),
                   Dot3(T, linear(m), force(fv2))))

\* double dot(const ForceVec<T>&): the value computed in T is returned as a
\* double.
dot(T, m, fv2) == RoundW(dotT(T, m, fv2), 53)

(***************************************************************************)
(* The state: the scalar type of the instantiation, two MotionVec objects  *)
(* a and b, a ForceVec f, and the statement being executed: pc names the   *)
(* call, arg holds its arguments and res the value it returned.            *)
(***************************************************************************)
VARIABLES scalarT, a, b, f, writes, pc, arg, res

vars == <<scalarT, a, b, f, writes, pc, arg, res>>

None == <<>>

Seq6 == <<1, 2, 3, 4, 5, 6>>

Vals == -1..MaxVal

\* The 3-vectors and 6-vectors over Vals with at most one non-zero element.
Units3 == {v \in [1..3 -> Vals] : Cardinality({i \in 1..3 : v[i] # 0}) <= 1}
Units6 == {v \in [1..6 -> Vals] : Cardinality({i \in 1..6 : v[i] # 0}) <= 1}

\* Arguments of the constructors.
CtorVecs == {Seq6, <<0, 1, 0, 0, 0, 1>>}
CtorAngular == {<<0, 0, 1>>, <<1, 2, 3>>}
CtorLinear == {<<1, 0, 0>>, <<4, 5, 6>>}
CtorForces == {ForceVecParts(<<1, 2, 3>>, <<4, 5, 6>>),
               ForceVecParts(<<0, 0, 1>>, <<0, 1, 0>>)}

\* What an uninitialized 6-vector may hold: any fill pattern over Vals.
Indeterminate6 == {[i \in 1..6 |-> v] : v \in Vals}

\* The value written through the mutable reference.
WriteVals == {7}

\* Scalar types T2 and scalars handed to operator* and cast.
AllTypes == {"short", "int", "long", "float", "double"}
MulTypes == {"int", "long", "float", "double"}
MulScalars(T2) == {-1, 0, 3} \cup (IF T2 = "float" THEN {16777216} ELSE {16777217})

\* The conversion of the scalar is defined and no product leaves the 31 bits
\* of the model (for int this excludes signed overflow).
MulDefined(T, m, T2, scalar) ==
    /\ ConvDefined(T2, T, scalar)
    /\ \A i \in 1..6 : FitsInt(MulW(Conv(T2, T, scalar), m.mv_[i]))

CastDefined(T, T2, m) == \A i \in 1..6 : ConvDefined(T, T2, m.mv_[i])

Init ==
    /\ scalarT \in {"int", "float"}
    /\ a \in {MotionVecVec(v) : v \in CtorVecs}
    /\ b \in {MotionVecVec(v) : v \in CtorVecs}
    /\ f \in CtorForces
    /\ writes = 0
    /\ pc = "ready"
    /\ arg = None
    /\ res = None

\* A statement that constructs or writes a: newa is the object afterwards.
Store(name, args, newa) ==
    /\ pc = "ready"
    /\ a' = newa
    /\ pc' = name
    /\ arg' = args
    /\ res' = None
    /\ UNCHANGED <<scalarT, b, f>>

\* MotionVec(): mv_() runs the 6-vector's default constructor, which leaves the
\* coefficients uninitialized.
NewDefault ==
    \E vec \in Indeterminate6 :
        Store("MotionVec()", None, MotionVecVec(vec)) /\ writes' = 0

NewVec ==
    \E vec \in CtorVecs :
        Store("MotionVec(vec)", vec, MotionVecVec(vec)) /\ writes' = 0

NewParts ==
    \E w \in CtorAngular, v \in CtorLinear :
        Store("MotionVec(angular,linear)", <<w, v>>, MotionVecParts(w, v))
        /\ writes' = 0

\* The implicit copy constructor: b becomes a copy of a freshly constructed a
\* (mv_ is held by value).
NewCopy ==
    /\ pc = "ready"
    /\ writes = 0
    /\ b' = [mv_ |-> a.mv_]
    /\ pc' = "MotionVec(mv)"
    /\ arg' = None
    /\ res' = None
    /\ UNCHANGED <<scalarT, a, f, writes>>

\* vector()(i) = val on a.
WriteVector ==
    \E i \in 0..5, val \in WriteVals :
        /\ writes < MaxWrites
        /\ Store("vector()=", <<i, val>>, vectorRef(a, i, val))
        /\ writes' = writes + 1

\* A call of a const member: the result is a new value, the objects stay.
Call(name, args, result) ==
    /\ pc = "ready"
    /\ pc' = name
    /\ arg' = args
    /\ res' = result
    /\ UNCHANGED <<scalarT, a, b, f, writes>>

CallAngular == Call("angular", None, angular(a))

CallLinear == Call("linear", None, linear(a))

CallVector == Call("vector", None, vector(a))

CallCast ==
    \E T2 \in AllTypes :
        /\ pc = "ready"
        /\ CastDefined(scalarT, T2, a)
        /\ Call("cast", T2, cast(scalarT, T2, a))

\* operator+ written as +=: the sum is stored in the receiver too.
CallPlus_assign ==
    /\ pc = "ready"
    /\ pc' = "operator+"
    /\ arg' = None
    /\ res' = operatorPlus(scalarT, a, b)
    /\ a' = operatorPlus(scalarT, a, b)
    /\ UNCHANGED <<scalarT, b, f, writes>>

CallPlus == Call("operator+", None, operatorPlus(scalarT, a, b))

CallMinus == Call("operator-", None, operatorMinus(scalarT, a, b))

CallNeg == Call("operator-()", None, operatorNeg(scalarT, a))

CallMul ==
    \E T2 \in MulTypes : \E k \in MulScalars(T2) :
        /\ pc = "ready"
        /\ MulDefined(scalarT, a, T2, k)
        /\ Call("operator*", <<T2, k>>, operatorMul(scalarT, a, T2, k))

CallMulLeft ==
    \E T2 \in MulTypes : \E k \in MulScalars(T2) :
        /\ pc = "ready"
        /\ MulDefined(scalarT, a, T2, k)
        /\ Call("scalar*", <<T2, k>>, operatorMulLeft(scalarT, T2, k, a))

CallCross == Call("cross", None, cross(scalarT, a, b))

CallCrossDual == Call("crossDual", None, crossDual(scalarT, a, f))

CallDot == Call("dot", None, dot(scalarT, a, f))

CallEq == Call("operator==", None, operatorEq(a, b))

CallNe == Call("operator!=", None, operatorNe(a, b))

CallOut == Call("operator<<", None, operatorOut(<<>>, a))

\* The statement ends: the returned temporary is destroyed.
Discard ==
    /\ pc # "ready"
    /\ pc' = "ready"
    /\ arg' = None
    /\ res' = None
    /\ UNCHANGED <<scalarT, a, b, f, writes>>

Next ==
    \/ NewDefault
    \/ NewVec
    \/ NewParts
    \/ NewCopy
    \/ WriteVector
    \/ CallAngular
    \/ CallLinear
    \/ CallVector
    \/ CallCast
    \/ CallPlus
    \/ CallMinus
    \/ CallNeg
    \/ CallMul
    \/ CallMulLeft
    \/ CallCross
    \/ CallCrossDual
    \/ CallDot
    \/ CallEq
    \/ CallNe
    \/ CallOut
    \/ Discard

Spec == Init /\ [][Next]_vars

(***************************************************************************)
(* The spatial operations on a wider set of operands.                      *)
(***************************************************************************)
AlgebraMotionsA ==
    {MotionVecParts(w, v) : w \in Units3, v \in Units3}
        \cup {MotionVecVec(Seq6), MotionVecVec(<<3, 0, 0, 0, 0, 0>>)}

AlgebraMotionsB ==
    {MotionVecVec(v) : v \in Units6}
        \cup {MotionVecVec(Seq6), MotionVecVec(<<0, 1, 0, 0, 0, 1>>),
              MotionVecVec(<<0, 8388609, 0, 0, 0, 0>>)}

AlgebraForces ==
    {[fv_ |-> v] : v \in Units6}
        \cup {[fv_ |-> Seq6], [fv_ |-> <<0, 0, 3, 0, 0, 0>>]}

InitAlgebra ==
    /\ scalarT \in {"int", "float"}
    /\ a \in AlgebraMotionsA
    /\ b \in AlgebraMotionsB
    /\ f \in AlgebraForces
    /\ writes = 0
    /\ pc = "ready"
    /\ arg = None
    /\ res = None

NextAlgebra ==
    \/ CallCross
    \/ CallCrossDual
    \/ CallDot
    \/ Discard

SpecAlgebra == InitAlgebra /\ [][NextAlgebra]_vars

(***************************************************************************)
(* dot on operands whose pairing needs more than 53 bits.                  *)
(***************************************************************************)
DotMotions ==
    {MotionVecParts(<<p, q, 0>>, <<0, 0, r>>) :
        p \in {0, 134217728, -134217728}, q \in {0, 1}, r \in {0, 1}}

DotForces ==
    {ForceVecParts(<<p, q, 0>>, <<0, 0, r>>) :
        p \in {0, 67108864}, q \in {-1, 0, 1}, r \in {0, 1}}

\* For int no product or partial sum overflows: every product is below 2^28.
DotDefined(T, m, fv) ==
    T = "int" => \A i \in 1..6 : AbsW(MulW(m.mv_[i], fv.fv_[i]))[1] = 0

InitDot ==
    /\ scalarT \in {"int", "long", "float", "double"}
    /\ a \in DotMotions
    /\ b = MotionVecVec(Zero6)
    /\ f \in DotForces
    /\ DotDefined(scalarT, a, f)
    /\ writes = 0
    /\ pc = "ready"
    /\ arg = None
    /\ res = None

NextDot ==
    \/ CallDot
    \/ Discard

SpecDot == InitDot /\ [][NextDot]_vars

(***************************************************************************)
(* cast and operator* over the scalar types, on values at the edges of     *)
(* their ranges.                                                           *)
(***************************************************************************)
EdgeVals(T) ==
    CASE T = "short" -> {-32768, 0, 32767}
      [] T = "float" -> {0, 40000, 16777216}
      [] OTHER -> {0, 40000, 16777217}

ScalarMotions(T) ==
    {MotionVecVec(<<x, 2, 3, 4, 5, y>>) : x \in EdgeVals(T), y \in EdgeVals(T)}

InitScalar ==
    /\ scalarT \in {"short", "int", "float", "double"}
    /\ a \in ScalarMotions(scalarT)
    /\ b = MotionVecVec(Zero6)
    /\ f = ForceVecParts(Zero3, Zero3)
    /\ writes = 0
    /\ pc = "ready"
    /\ arg = None
    /\ res = None

NextScalar ==
    \/ CallCast
    \/ CallMul
    \/ CallMulLeft
    \/ Discard

SpecScalar == InitScalar /\ [][NextScalar]_vars

(***************************************************************************)
(* The properties.                                                         *)
(***************************************************************************)
ExampleA == <<0, 0, 1, 1, 0, 0>>
ExampleB == <<0, 1, 0, 0, 0, 1>>

\* C1: a.cross(b) is the motion vector whose angular part is the 3D cross
\* product aw x bw and whose linear part is aw x bv + av x bw, with the head of
\* each operand its angular part and the tail its linear part; for
\* a = ((0,0,1),(1,0,0)) and b = ((0,1,0),(0,0,1)) it is ((-1,0,0),(0,0,1)).
C1_CrossContract ==
    pc = "cross" =>
        LET aw == SubSeq(a.mv_, 1, 3)
            av == SubSeq(a.mv_, 4, 6)
            bw == SubSeq(b.mv_, 1, 3)
            bv == SubSeq(b.mv_, 4, 6)
        IN  /\ SubSeq(res.mv_, 1, 3) = Cross3(scalarT, aw, bw)
            /\ SubSeq(res.mv_, 4, 6)
                   = Add3(scalarT, Cross3(scalarT, aw, bv), Cross3(scalarT, av, bw))
            /\ (a.mv_ = ExampleA /\ b.mv_ = ExampleB)
                   => res.mv_ = <<-1, 0, 0, 0, 0, 1>>

C1_Witness ==
    /\ pc = "cross"
    /\ a.mv_ = ExampleA
    /\ b.mv_ = ExampleB
    /\ res.mv_ = <<-1, 0, 0, 0, 0, 1>>

\* C2: a.crossDual(f) is the force vector whose moment part (head) is
\* aw x fm + av x ff and whose force part (tail) is aw x ff.
C2_CrossDualContract ==
    pc = "crossDual" =>
        LET aw == SubSeq(a.mv_, 1, 3)
            av == SubSeq(a.mv_, 4, 6)
            fm == SubSeq(f.fv_, 1, 3)
            ff == SubSeq(f.fv_, 4, 6)
        IN  /\ SubSeq(res.fv_, 1, 3)
                   = Add3(scalarT, Cross3(scalarT, aw, fm), Cross3(scalarT, av, ff))
            /\ SubSeq(res.fv_, 4, 6) = Cross3(scalarT, aw, ff)

C2_Witness ==
    /\ pc = "crossDual"
    /\ Cross3(scalarT, SubSeq(a.mv_, 1, 3), SubSeq(f.fv_, 1, 3)) # Zero3
    /\ Cross3(scalarT, SubSeq(a.mv_, 4, 6), SubSeq(f.fv_, 4, 6)) # Zero3
    /\ SubSeq(res.fv_, 1, 3) # Zero3
    /\ SubSeq(res.fv_, 4, 6) # Zero3

\* C3 as stated: for all motion vectors a, b and force vectors f,
\* (a.cross(b)).dot(f) == -(b.dot(a.crossDual(f))).
C3_AdjointIdentity ==
    pc = "cross" =>
        dot(scalarT, res, f) = NegW(dot(scalarT, b, crossDual(scalarT, a, f)))

\* No operation of either side of the identity rounds: the vectors and the
\* pairings computed in T are those of exact integer arithmetic.
AdjointExact ==
    /\ cross(scalarT, a, b) = cross("long", a, b)
    /\ crossDual(scalarT, a, f) = crossDual("long", a, f)
    /\ dotT(scalarT, cross(scalarT, a, b), f) = dotT("long", cross("long", a, b), f)
    /\ dotT(scalarT, b, crossDual(scalarT, a, f))
           = dotT("long", b, crossDual("long", a, f))

\* C3 amended: (a.cross(b)).dot(f) == -(b.dot(a.crossDual(f))) whenever the
\* arithmetic of T is exact on the operands (no product or sum of either side
\* is rounded).
C3_AdjointIdentityExact ==
    (pc = "cross" /\ AdjointExact) =>
        dot(scalarT, res, f) = NegW(dot(scalarT, b, crossDual(scalarT, a, f)))

C3_Witness ==
    /\ pc = "cross"
    /\ scalarT = "float"
    /\ AdjointExact
    /\ dot(scalarT, res, f) # <<0, 0>>
    /\ dot(scalarT, res, f) = NegW(dot(scalarT, b, crossDual(scalarT, a, f)))

\* The sum of the six elementwise products, computed in T.
PairingInT(T, m, fv) ==
    LET p(i) == RoundT(T, MulW(m.mv_[i], fv.fv_[i]))
        s(u, v) == RoundT(T, AddW(u, v))
    IN  s(s(s(p(1), p(2)), p(3)), s(s(p(4), p(5)), p(6)))

\* C4: a.dot(f) returns exactly aw.fm + av.ff, the sum of the six elementwise
\* products, as a value of T, with no loss from a conversion to another
\* numeric type.
C4_DotExactInT == pc = "dot" => res = PairingInT(scalarT, a, f)

\* C5: a.cross(b) == -(b.cross(a)), and a.cross(a) is the zero vector.
C5_CrossAntisymmetric ==
    pc = "cross" =>
        /\ operatorEq(res, operatorNeg(scalarT, cross(scalarT, b, a)))
        /\ a.mv_ = b.mv_ => res.mv_ = Zero6

C5_Witness ==
    /\ pc = "cross"
    /\ a.mv_ = Seq6
    /\ b.mv_ = Seq6
    /\ res.mv_ = Zero6

\* C6: MotionVec(a, l).angular() == a, MotionVec(a, l).linear() == l and
\* MotionVec(a, l).vector() holds a in elements 0-2 and l in elements 3-5;
\* MotionVec(v).angular() is elements 0-2 of v and MotionVec(v).linear() is
\* elements 3-5 of v.
C6_ConstructionRoundTrip ==
    /\ pc = "MotionVec(angular,linear)" =>
           /\ angular(a) = arg[1]
           /\ linear(a) = arg[2]
           /\ \A i \in 1..3 : /\ vector(a)[i] = arg[1][i]
                              /\ vector(a)[i + 3] = arg[2][i]
    /\ pc = "MotionVec(vec)" =>
           \A i \in 1..3 : /\ angular(a)[i] = arg[i]
                           /\ linear(a)[i] = arg[i + 3]

C6_Witness ==
    /\ pc = "MotionVec(angular,linear)"
    /\ arg = <<(<<1, 2, 3>>), (<<1, 0, 0>>)>>
    /\ angular(a) = <<1, 2, 3>>
    /\ linear(a) = <<1, 0, 0>>

\* C7: a default-constructed MotionVec has all 6 components equal to zero.
C7_DefaultIsZero ==
    pc = "MotionVec()" =>
        /\ vector(a) = Zero6
        /\ angular(a) = Zero3
        /\ linear(a) = Zero3

ConstCalls ==
    {"angular", "linear", "vector", "cast", "operator+", "operator-",
     "operator-()", "operator*", "scalar*", "cross", "crossDual", "dot",
     "operator==", "operator!=", "operator<<"}

C9_ScalarMul ==
    pc \in {"operator*", "scalar*"} =>
        /\ res = operatorMul(scalarT, a, arg[1], arg[2])
        /\ res = operatorMulLeft(scalarT, arg[1], arg[2], a)
        /\ \A i \in 1..6 :
               Wide(res.mv_[i]) = RoundT(scalarT, MulW(arg[2], a.mv_[i]))

\* C9 amended: k * v == v * k, both are MotionVec<T>, and component i of the
\* result is T(k) times component i of v computed in T, where T(k) is k
\* converted to T.
C9_ScalarMulConverted ==
    pc \in {"operator*", "scalar*"} =>
        /\ res = operatorMul(scalarT, a, arg[1], arg[2])
        /\ res = operatorMulLeft(scalarT, arg[1], arg[2], a)
        /\ \A i \in 1..6 :
               Wide(res.mv_[i])
                   = RoundT(scalarT,
                            MulW(Narrow(RoundT(scalarT, Wide(arg[2]))), a.mv_[i]))

C9_Witness ==
    /\ pc = "scalar*"
    /\ scalarT = "float"
    /\ arg = <<"double", 16777217>>
    /\ a.mv_[2] = 2
    /\ res.mv_[2] = 33554432

\* T2 represents every value of T exactly.
RepresentsAll(T2, T) ==
    \/ T2 = T
    \/ T = "short" /\ T2 \in {"int", "long", "float", "double"}
    \/ T = "int" /\ T2 \in {"long", "double"}
    \/ T = "float" /\ T2 = "double"

\* C10: v.cast<T2>() has component i equal to the conversion of component i
\* of v, and when T2 represents every value of T exactly the value is kept
\* and v.cast<T2>().cast<T>() == v.
C10_CastRoundTrip ==
    pc = "cast" =>
        /\ \A i \in 1..6 : res.mv_[i] = Conv(scalarT, arg, a.mv_[i])
        /\ RepresentsAll(arg, scalarT) =>
               /\ \A i \in 1..6 : res.mv_[i] = a.mv_[i]
               /\ operatorEq(cast(arg, scalarT, res), a)

C10_Witness ==
    /\ pc = "cast"
    /\ scalarT = "int"
    /\ arg = "double"
    /\ a.mv_[1] = 16777217
    /\ res.mv_[1] = 16777217
    /\ operatorEq(cast(arg, scalarT, res), a)

====
